---- MODULE Spec2Model ----
(***************************************************************************)
(* Grid simulation engine of fluid_simulation (src/main.rs): a WIDTH x     *)
(* HEIGHT toroidal grid of cells, each a 2D velocity and a density,        *)
(* relaxed by diffusion_system and transported by advection_system.        *)
(*                                                                         *)
(* f32 values are modelled as fixed-point numbers: the integer n stands    *)
(* for the real n / SCALE.  Products and quotients round to the nearest    *)
(* representable value, as IEEE arithmetic does at its own resolution.     *)
(* NaN and the infinities are not represented; magnitudes stay bounded.    *)
(***************************************************************************)
EXTENDS Integers, Sequences, FiniteSets, TLC

\* Resolution of the fixed-point model of f32: units per 1.0.
SCALE == 100

\* Number of grid operations in one behaviour.
MaxOps == 2

WIDTH == 20
HEIGHT == 20
\* CELL_SIZE: f32 = 30.0, in whole units (pixels per cell).
CELL_SIZE == 30
\* `for _ in 0..5` of diffusion_system and of advection_system.
DiffusionSweeps == 5
AdvectionSweeps == 5
\* `15.0 * time.delta_seconds()`: the diffusion rate, in whole units.
DiffusionRate == 15
\* `5.0 * mouse_event.delta`: the pointer gain, in whole units.
MouseGain == 5
\* setup: grid.0[4][4] gets density 20.0, velocity (20.0, -20.0).
SpikeX == 4
SpikeY == 4
SpikeValue == 20

Xs == 0 .. (WIDTH - 1)
Ys == 0 .. (HEIGHT - 1)

-----------------------------------------------------------------------------
(* f32 arithmetic *)

\* n / d rounded to the nearest integer, d > 0.
RoundDiv(n, d) == (2 * n + d) \div (2 * d)

\* a * b and a / b on f32.
FMul(a, b) == RoundDiv(a * b, SCALE)
FDiv(a, b) == RoundDiv(a * SCALE, b)

\* `n as f32` for a small index n.
FromUsize(n) == n * SCALE

\* `f as usize`: Rust's float-to-integer cast truncates toward zero and
\* saturates, so every negative value becomes 0.
AsUsize(f) == IF f < 0 THEN 0 ELSE f \div SCALE

-----------------------------------------------------------------------------
(* Cell and Grid *)

Vec2(vx, vy) == [x |-> vx, y |-> vy]
Vec2ZERO == Vec2(0, 0)

Cell(v, d) == [velocity |-> v, density |-> d]

\* The closures passed to get_average.
Attrs == {"density", "velocity.x", "velocity.y"}
Attr(cell, attr) ==
    CASE attr = "density"    -> cell.density
      [] attr = "velocity.x" -> cell.velocity.x
      [] attr = "velocity.y" -> cell.velocity.y

\* Grid::new(): HEIGHT rows of WIDTH zeroed cells; grid.0[y][x] is g[y][x].
GridNew == [y \in Ys |-> [x \in Xs |-> Cell(Vec2ZERO, 0)]]

\* The grid spawned by setup.
SetupGrid ==
    [GridNew EXCEPT ![SpikeY][SpikeX] =
        Cell(Vec2(SpikeValue * SCALE, -(SpikeValue * SCALE)), SpikeValue * SCALE)]

\* The four column/row indices get_average computes for (x, y).
XPlus(x) == (x + 1) % WIDTH
\* XMinus with the left edge clamped instead of wrapped.
XMinusClamped(x) == IF x = 0 THEN 0 ELSE x - 1
XMinus(x) == (x + WIDTH - 1) % WIDTH
YPlus(y) == (y + 1) % HEIGHT
YMinus(y) == (y + HEIGHT - 1) % HEIGHT

\* Grid::get_average
get_average(g, x, y, attr) ==
    LET n1 == Attr(g[y][XMinus(x)], attr)
        n2 == Attr(g[y][XPlus(x)], attr)
        n3 == Attr(g[YMinus(y)][x], attr)
        n4 == Attr(g[YPlus(y)][x], attr)
    IN  FDiv(n1 + n2 + n3 + n4, 4 * SCALE)

-----------------------------------------------------------------------------
(* diffusion_system *)

\* k = 15.0 * time.delta_seconds()
Stiffness(dt) == FMul(DiffusionRate * SCALE, dt)

\* The numerator's first term of the velocity.x update: the code reads
\* grid.0[y][x].velocity.y there.
DiffusionVxOriginal(cell) == cell.velocity.y

\* The <<row, column>> index pairs get_average(x, y) reads.
GetAverageReads(x, y) ==
    {<<y, XMinus(x)>>, <<y, XPlus(x)>>, <<YMinus(y), x>>, <<YPlus(y), x>>}

\* Vec indexing is bounds-checked: grid.0[r][c] panics unless this holds.
InBounds(rc) == rc[1] \in Ys /\ rc[2] \in Xs

\* A handler in progress: the grid it writes (the working copy new_grid of
\* a simulation step), and whether an index panicked.
Running(ng) == [grid |-> ng, panicked |-> FALSE]
Panicked(st) == [st EXCEPT !.panicked = TRUE]

\* Body of the innermost loop: the new cell (x, y) of new_grid.
DiffusionCell(g, st, x, y, k) ==
    IF \E rc \in GetAverageReads(x, y) \cup {<<y, x>>} : ~InBounds(rc)
    THEN Panicked(st)
    ELSE
    LET ng == st.grid
        d  == FDiv(g[y][x].density + FMul(k, get_average(ng, x, y, "density")),
                   SCALE + k)
        vx == FDiv(DiffusionVxOriginal(g[y][x])
                     + FMul(k, get_average(ng, x, y, "velocity.x")),
                   SCALE + k)
        vy == FDiv(g[y][x].velocity.y
                     + FMul(k, get_average(ng, x, y, "velocity.y")),
                   SCALE + k)
    IN  Running([ng EXCEPT ![y][x] = Cell(Vec2(vx, vy), d)])

\* for x in 0..WIDTH
RECURSIVE DiffusionRow(_, _, _, _, _)
DiffusionRow(g, st, x, y, k) ==
    IF x = WIDTH \/ st.panicked THEN st
    ELSE DiffusionRow(g, DiffusionCell(g, st, x, y, k), x + 1, y, k)

\* for y in 0..HEIGHT
RECURSIVE DiffusionRows(_, _, _, _)
DiffusionRows(g, st, y, k) ==
    IF y = HEIGHT \/ st.panicked THEN st
    ELSE DiffusionRows(g, DiffusionRow(g, st, 0, y, k), y + 1, k)

\* for _ in 0..5
RECURSIVE DiffusionSweep(_, _, _, _)
DiffusionSweep(g, st, i, k) ==
    IF i = DiffusionSweeps \/ st.panicked THEN st
    ELSE DiffusionSweep(g, DiffusionRows(g, st, 0, k), i + 1, k)

\* diffusion_system on grid g: new_grid starts as grid.clone().
Diffusion(g, dt) == DiffusionSweep(g, Running(g), 0, Stiffness(dt))

-----------------------------------------------------------------------------
(* advection_system *)

\* let lerp = |a, b, k| a + k * (b - a);
lerp(a, b, k) == a + FMul(k, b - a)

\* f = pos - velocity * dt, one coordinate: p is x or y, v the velocity
\* component of the cell.
BacktracePos(p, v, dt) == FromUsize(p) - FMul(v, dt)

\* SourceIndex taking the cell past the truncated one.
SourceIndexUp(f) == AsUsize(f) + 1

\* ix = f.x as usize (resp. iy = f.y as usize)
SourceIndex(f) == AsUsize(f)

\* jx = f.x - ix as f32 (resp. jy)
SourceOffset(f) == f - FromUsize(SourceIndex(f))

\* The locals f, ix, iy, jx, jy of the loop body at cell (x, y).
Backtrace(ng, x, y, dt) ==
    LET fx == BacktracePos(x, ng[y][x].velocity.x, dt)
        fy == BacktracePos(y, ng[y][x].velocity.y, dt)
    IN  [f |-> Vec2(fx, fy),
         ix |-> SourceIndex(fx), iy |-> SourceIndex(fy),
         jx |-> SourceOffset(fx), jy |-> SourceOffset(fy)]

\* The <<row, column>> index pairs the loop body reads for source (ix, iy).
AdvectionReads(ix, iy) ==
    {<<iy, ix>>, <<iy, (ix + 1) % WIDTH>>, <<(iy + 1) % HEIGHT, ix>>}

\* AdvectionStore assigning the velocity along with the density.
AdvectionStoreAll(cell, d) == Cell(Vec2(d, d), d)

\* The cell the loop body stores at (x, y): only its density is assigned.
AdvectionStore(cell, d) == [cell EXCEPT !.density = d]

\* Body of the innermost loop at cell (x, y).
AdvectionCell(st, x, y, dt) ==
    LET ng == st.grid
        b  == Backtrace(ng, x, y, dt)
    IN  IF \E rc \in AdvectionReads(b.ix, b.iy) \cup {<<y, x>>} : ~InBounds(rc)
        THEN Panicked(st)
        ELSE
        LET z1 == lerp(ng[b.iy][b.ix].density,
                       ng[b.iy][(b.ix + 1) % WIDTH].density, b.jx)
            z2 == lerp(ng[(b.iy + 1) % HEIGHT][b.ix].density,
                       ng[b.iy][b.ix].density, b.jx)
        IN  Running([ng EXCEPT ![y][x] = AdvectionStore(@, lerp(z1, z2, b.jy))])

\* for x in 0..WIDTH
RECURSIVE AdvectionRow(_, _, _, _)
AdvectionRow(st, x, y, dt) ==
    IF x = WIDTH \/ st.panicked THEN st
    ELSE AdvectionRow(AdvectionCell(st, x, y, dt), x + 1, y, dt)

\* for y in 0..HEIGHT
RECURSIVE AdvectionRows(_, _, _)
AdvectionRows(st, y, dt) ==
    IF y = HEIGHT \/ st.panicked THEN st
    ELSE AdvectionRows(AdvectionRow(st, 0, y, dt), y + 1, dt)

\* for _ in 0..5
RECURSIVE AdvectionSweep(_, _, _)
AdvectionSweep(st, i, dt) ==
    IF i = AdvectionSweeps \/ st.panicked THEN st
    ELSE AdvectionSweep(AdvectionRows(st, 0, dt), i + 1, dt)

\* advection_system on grid g: new_grid starts as grid.clone().
Advection(g, dt) == AdvectionSweep(Running(g), 0, dt)

-----------------------------------------------------------------------------
(* print_mouse_events_system and print_char_event_system *)

\* x = (cursor_event.position.x / CELL_SIZE) as usize (resp. y)
CursorCell(p) == AsUsize(FDiv(p, CELL_SIZE * SCALE))

\* InjectAccepts without the test of y.
InjectAcceptsXOnly(x, y) == x < WIDTH

\* if x < WIDTH && y < HEIGHT
InjectAccepts(x, y) == x < WIDTH /\ y < HEIGHT

\* Body of the event loop for one (mouse_event, cursor_event) pair:
\* ev.position is the cursor position, ev.delta the mouse motion.
Inject(st, ev) ==
    LET x == CursorCell(ev.position.x)
        y == CursorCell(ev.position.y)
    IN  IF ~InjectAccepts(x, y) THEN st
        ELSE IF ~InBounds(<<y, x>>) THEN Panicked(st)
        ELSE Running([st.grid EXCEPT ![y][x].velocity =
                        Vec2(FMul(MouseGain * SCALE, ev.delta.x),
                             FMul(MouseGain * SCALE, ev.delta.y))])

\* for (mouse_event, cursor_event) in zip(...)
RECURSIVE MouseEvents(_, _)
MouseEvents(st, events) ==
    IF events = <<>> \/ st.panicked THEN st
    ELSE MouseEvents(Inject(st, Head(events)), Tail(events))

\* CharEvent restoring the grid of setup instead of Grid::new().
CharEventSetup(g, c) == IF c = "r" THEN SetupGrid ELSE g

\* The grid print_char_event_system leaves for one character event.
CharEvent(g, c) == IF c = "r" THEN GridNew ELSE g

\* for event in char_input_events.iter()
RECURSIVE CharEvents(_, _)
CharEvents(g, chars) ==
    IF chars = <<>> THEN g
    ELSE CharEvents(CharEvent(g, Head(chars)), Tail(chars))

-----------------------------------------------------------------------------
(* State *)

VARIABLES
    grid,       \* the Grid component
    panicked,   \* a handler panicked: the application is gone
    op,         \* the handler that ran last
    arg,        \* its input (and, for get_average, its result)
    ops,        \* number of handlers run so far
    run,        \* the simulation step in progress, loop body by loop body
    frame       \* the frame in progress under main's schedule

vars == <<grid, panicked, op, arg, ops, run, frame>>

\* time.delta_seconds(): 0 and half a second.
DTs == {0, SCALE \div 2}

\* Cursor positions: the centre of the spike's cell, the last pixel of the
\* window, the first position past it, and one a cell further out.
CursorSpike == (SpikeX * CELL_SIZE + CELL_SIZE \div 2) * SCALE
CursorLast == (WIDTH * CELL_SIZE - 1) * SCALE
CursorPast == WIDTH * CELL_SIZE * SCALE
CursorFar == (WIDTH + 1) * CELL_SIZE * SCALE

Event(px, py, dx, dy) == [position |-> Vec2(px, py), delta |-> Vec2(dx, dy)]

\* (mouse_event, cursor_event) pairs: a still pointer on the spike, drags in
\* the first and the last cell, and drags past the right and the top edge.
EventStill == Event(CursorSpike, CursorSpike, 0, 0)
EventOrigin == Event(0, 0, 3 * SCALE, -(2 * SCALE))
EventCorner == Event(CursorLast, CursorLast, -(2 * SCALE), 3 * SCALE)
EventRight == Event(CursorPast, CursorSpike, -(2 * SCALE), 3 * SCALE)
EventAbove == Event(CursorSpike, CursorFar, SCALE, SCALE)

\* The zipped event pairs one call of print_mouse_events_system iterates.
EventBatches ==
    {<<EventStill>>, <<EventOrigin>>, <<EventCorner>>, <<EventRight>>,
     <<EventAbove>>, <<EventRight, EventCorner>>, <<EventAbove, EventRight>>,
     <<EventStill, EventOrigin>>}

\* The characters one call of print_char_event_system iterates.
CharBatches == {<<"r">>, <<"x">>, <<"x", "r">>}

Idle == [pc |-> "idle"]
NoFrame == [n |-> 0, dt |-> 0, events |-> <<>>, chars |-> <<>>,
            pending |-> {}, stepped |-> <<>>]

\* After setup.
Init ==
    /\ grid = SetupGrid
    /\ panicked = FALSE
    /\ op = "setup"
    /\ arg = <<>>
    /\ ops = 0
    /\ run = Idle
    /\ frame = NoFrame

\* A handler that ran to st: the grid is replaced unless it panicked.
Finish(st) ==
    /\ panicked' = st.panicked
    /\ grid' = IF st.panicked THEN grid ELSE st.grid

-----------------------------------------------------------------------------
(* Spec: the handlers, each call one step *)

Called(name, input) ==
    /\ ~panicked
    /\ ops < MaxOps
    /\ ops' = ops + 1
    /\ op' = name
    /\ arg' = input
    /\ UNCHANGED <<run, frame>>

DiffusionSystem(dt) ==
    /\ Called("diffusion_system", [dt |-> dt])
    /\ Finish(Diffusion(grid, dt))

AdvectionSystem(dt) ==
    /\ Called("advection_system", [dt |-> dt])
    /\ Finish(Advection(grid, dt))

PrintMouseEventsSystem(events) ==
    /\ Called("print_mouse_events_system", [events |-> events])
    /\ Finish(MouseEvents(Running(grid), events))

PrintCharEventSystem(chars) ==
    /\ Called("print_char_event_system", [chars |-> chars])
    /\ Finish(Running(CharEvents(grid, chars)))

Next ==
    \/ \E dt \in DTs : DiffusionSystem(dt)
    \/ \E dt \in DTs : AdvectionSystem(dt)
    \/ \E events \in EventBatches : PrintMouseEventsSystem(events)
    \/ \E chars \in CharBatches : PrintCharEventSystem(chars)

Spec == Init /\ [][Next]_vars

-----------------------------------------------------------------------------
(* SpecAverage: get_average called on grids the program reaches *)

\* The grid after one diffusion step of half a second.
DiffusedGrid == Diffusion(SetupGrid, SCALE \div 2).grid

\* The diffused grid after a drag through every cell, each with its own
\* motion: the velocity of cell (x, y) is 5.0 * delta(x, y).
DraggedGrid ==
    [y \in Ys |-> [x \in Xs |->
        Cell(Vec2(FMul(MouseGain * SCALE, (x + WIDTH * y + 1) * SCALE),
                  FMul(MouseGain * SCALE, -((y + HEIGHT * x) * SCALE))),
             DiffusedGrid[y][x].density)]]

AverageGrids == {SetupGrid, DiffusedGrid, DraggedGrid}

\* The coordinates get_average is called with: the corners, the edges, the
\* spike and the cells around it.
AverageCoords ==
    {<<x, y>> : x \in {0, SpikeX - 1, SpikeX, SpikeX + 1, WIDTH - 1},
                y \in {0, SpikeY - 1, SpikeY, SpikeY + 1, HEIGHT - 1}}

InitAverage ==
    /\ grid \in AverageGrids
    /\ panicked = FALSE
    /\ op = "setup"
    /\ arg = <<>>
    /\ ops = 0
    /\ run = Idle
    /\ frame = NoFrame

\* get_average takes &self: the grid is only read.
GetAverage(x, y, attr) ==
    /\ Called("get_average",
              [x |-> x, y |-> y, attr |-> attr,
               avg |-> get_average(grid, x, y, attr)])
    /\ UNCHANGED <<grid, panicked>>

NextAverage == \E c \in AverageCoords, attr \in Attrs : GetAverage(c[1], c[2], attr)

SpecAverage == InitAverage /\ [][NextAverage]_vars

-----------------------------------------------------------------------------
(* SpecSweep: a simulation step, one loop body at a time *)

Steps == {"diffusion_system", "advection_system"}

\* The frame time of the steps followed body by body.
SweepDTs == {SCALE \div 2}

Sweeps(name) ==
    IF name = "diffusion_system" THEN DiffusionSweeps ELSE AdvectionSweeps

\* LoopDone leaving the loop after its first sweep.
LoopDoneEarly(i, sweeps) == i >= 1

\* The `for _ in 0..5` loop has run all its sweeps.
LoopDone(i, sweeps) == i = sweeps

\* let mut new_grid = grid.clone(); and the loop counters at their start.
\* written: the cells of new_grid assigned so far in this step; reads and
\* seen: the cells of new_grid the last loop body read, and the cells that
\* had been assigned when it read them; local: its locals.
Begin(name, dt) ==
    /\ ~panicked
    /\ run.pc = "idle"
    /\ ops < MaxOps
    /\ ops' = ops + 1
    /\ op' = name
    /\ arg' = [dt |-> dt]
    /\ run' = [pc |-> name, new_grid |-> grid, dt |-> dt,
               i |-> 0, x |-> 0, y |-> 0,
               written |-> {}, seen |-> {}, reads |-> {}, local |-> <<>>]
    /\ UNCHANGED <<grid, panicked, frame>>

\* The loop counters after the body at (x, y) of sweep i.
Advance(r) ==
    IF r.x + 1 < WIDTH THEN [r EXCEPT !.x = r.x + 1]
    ELSE IF r.y + 1 < HEIGHT THEN [r EXCEPT !.x = 0, !.y = r.y + 1]
    ELSE [r EXCEPT !.x = 0, !.y = 0, !.i = r.i + 1]

\* One loop body ran to st, having read `reads` of new_grid.
Body(st, reads, local) ==
    /\ panicked' = st.panicked
    /\ run' = IF st.panicked
              THEN [run EXCEPT !.reads = reads, !.seen = run.written,
                               !.local = local]
              ELSE [Advance(run) EXCEPT !.new_grid = st.grid,
                        !.written = run.written \cup {<<run.y, run.x>>},
                        !.reads = reads, !.seen = run.written,
                        !.local = local]
    /\ UNCHANGED <<grid, op, arg, ops, frame>>

DiffusionLoopBody ==
    /\ ~panicked
    /\ run.pc = "diffusion_system"
    /\ ~LoopDone(run.i, DiffusionSweeps)
    /\ Body(DiffusionCell(grid, Running(run.new_grid), run.x, run.y,
                          Stiffness(run.dt)),
            GetAverageReads(run.x, run.y), <<>>)

AdvectionLoopBody ==
    /\ ~panicked
    /\ run.pc = "advection_system"
    /\ ~LoopDone(run.i, AdvectionSweeps)
    /\ LET b == Backtrace(run.new_grid, run.x, run.y, run.dt)
       IN  Body(AdvectionCell(Running(run.new_grid), run.x, run.y, run.dt),
                AdvectionReads(b.ix, b.iy) \cup {<<run.y, run.x>>}, b)

\* *grid = new_grid;
Commit ==
    /\ ~panicked
    /\ run.pc \in Steps
    /\ LoopDone(run.i, Sweeps(run.pc))
    /\ grid' = run.new_grid
    /\ run' = Idle
    /\ UNCHANGED <<panicked, op, arg, ops, frame>>

NextSweep ==
    \/ \E dt \in SweepDTs : Begin("diffusion_system", dt)
    \/ \E dt \in SweepDTs : Begin("advection_system", dt)
    \/ DiffusionLoopBody
    \/ AdvectionLoopBody
    \/ Commit

SpecSweep == Init /\ [][NextSweep]_vars

\* Followed body by body, a step leaves the grid the handler leaves.
SweepMatchesHandler ==
    [][(run.pc \in Steps /\ run'.pc = "idle") =>
         grid' = IF run.pc = "diffusion_system"
                 THEN Diffusion(grid, run.dt).grid
                 ELSE Advection(grid, run.dt).grid]_vars

-----------------------------------------------------------------------------
(* SpecApp: the frames of the application main builds *)

\* Number of frames in one behaviour.
MaxFrames == 1

\* Systems with the add_system line of advection_system not commented out.
SystemsWithAdvection ==
    {"diffusion_system",
     "advection_system",
     "velocity_arrow_direction_system",
     "velocity_arrow_color_system",
     "density_square_system",
     "print_mouse_events_system",
     "print_char_event_system"}

\* The systems main registers with add_system; it declares no order among
\* them, so within a frame they may run in any order, never two at a time
\* on the Grid.
Systems ==
    {"diffusion_system",
     "velocity_arrow_direction_system",
     "velocity_arrow_color_system",
     "density_square_system",
     "print_mouse_events_system",
     "print_char_event_system"}

\* What a frame delivers: the time delta and the event queues.
FrameInput(dt, events, chars) == [dt |-> dt, events |-> events, chars |-> chars]
FrameInputs ==
    {FrameInput(SCALE \div 2, <<EventCorner>>, <<"x">>),
     FrameInput(0, <<>>, <<"r">>)}

\* The scheduler starts the next frame when every system of this one ran.
Tick(in) ==
    /\ ~panicked
    /\ frame.pending = {}
    /\ frame.n < MaxFrames
    /\ frame' = [n |-> frame.n + 1, dt |-> in.dt, events |-> in.events,
                 chars |-> in.chars, pending |-> Systems, stepped |-> <<>>]
    /\ op' = "tick"
    /\ UNCHANGED <<grid, panicked, arg, ops, run>>

\* What system s leaves of the grid in this frame.
SystemRun(s) ==
    CASE s = "diffusion_system" -> Diffusion(grid, frame.dt)
      [] s = "advection_system" -> Advection(grid, frame.dt)
      [] s = "print_mouse_events_system" -> MouseEvents(Running(grid), frame.events)
      [] s = "print_char_event_system" -> Running(CharEvents(grid, frame.chars))
      [] OTHER -> Running(grid)

\* stepped: the simulation steps of this frame, in the order they ran.
RunSystem(s) ==
    /\ ~panicked
    /\ s \in frame.pending
    /\ Finish(SystemRun(s))
    /\ frame' = [frame EXCEPT !.pending = @ \ {s},
                              !.stepped = IF s \in Steps THEN Append(@, s) ELSE @]
    /\ UNCHANGED <<op, arg, ops, run>>

NextApp ==
    \/ \E in \in FrameInputs : Tick(in)
    \/ \E s \in Systems : RunSystem(s)

SpecApp == Init /\ [][NextApp]_vars

-----------------------------------------------------------------------------
(* Properties *)

Cells == {<<x, y>> : x \in Xs, y \in Ys}
Range(q) == {q[i] : i \in DOMAIN q}

Velocities(g) == [c \in Cells |-> g[c[2]][c[1]].velocity]
Densities(g) == [c \in Cells |-> g[c[2]][c[1]].density]

\* C1: no grid operation panics: every index a step reads or writes is in
\* range, so the step runs to completion.
C1_NoPanic == ~panicked

\* C2: get_average(x, y) is the mean (to rounding) of the selected field over
\* the west, east, north and south neighbours with toroidal wrap; the centre
\* cell does not enter the result and the grid is not modified.
C2_GetAverageWrappedMean ==
    [][op' = "get_average" =>
        LET x == arg'.x
            y == arg'.y
            a == arg'.attr
            sum == Attr(grid[y][(x - 1) % WIDTH], a)
                 + Attr(grid[y][(x + 1) % WIDTH], a)
                 + Attr(grid[(y - 1) % HEIGHT][x], a)
                 + Attr(grid[(y + 1) % HEIGHT][x], a)
            other == Cell(Vec2(grid[y][x].velocity.x + SCALE,
                               grid[y][x].velocity.y - SCALE),
                          grid[y][x].density + SCALE)
        IN  /\ grid' = grid
            /\ 4 * arg'.avg - sum \in -2 .. 2
            /\ get_average([grid EXCEPT ![y][x] = other], x, y, a) = arg'.avg
    ]_vars

\* A corner call whose wrapped neighbours are not all zero.
C2_Witness ==
    /\ op = "get_average"
    /\ arg.x = 0 /\ arg.y = 0
    /\ arg.avg # 0
    /\ Attr(grid[0][WIDTH - 1], arg.attr) # Attr(grid[0][0], arg.attr)

\* C3: a diffusion step with k = 0 leaves density, velocity.x and velocity.y
\* of every cell unchanged.
C3_ZeroStiffnessNoOp ==
    [][(op' = "diffusion_system" /\ Stiffness(arg'.dt) = 0) => grid' = grid]_vars

\* C4: an advection step on a grid whose velocities are all zero leaves every
\* density unchanged (and completes), whatever dt.
C4_ZeroVelocityKeepsDensity ==
    [][(op' = "advection_system" /\ \A c \in Cells : Velocities(grid)[c] = Vec2ZERO)
         => (~panicked' /\ Densities(grid') = Densities(grid))]_vars

\* An advection step with dt > 0 ran on a still grid that holds density.
C4_Witness ==
    /\ op = "advection_system"
    /\ arg.dt > 0
    /\ ~panicked
    /\ \A c \in Cells : Velocities(grid)[c] = Vec2ZERO
    /\ \E c \in Cells : Densities(grid)[c] # 0

\* The cell an event pair addresses, as <<x, y>>.
EventCell(ev) == <<CursorCell(ev.position.x), CursorCell(ev.position.y)>>
OutOfRange(ev) == EventCell(ev)[1] >= WIDTH \/ EventCell(ev)[2] >= HEIGHT

\* C5: an injection with x >= WIDTH or y >= HEIGHT is rejected: no cell
\* changes on its account (none but the cells in-range events address), and
\* the handler completes.
C5_OutOfRangeRejected ==
    [][op' = "print_mouse_events_system" =>
        /\ ~panicked'
        /\ \A c \in Cells :
             (\A ev \in Range(arg'.events) : EventCell(ev) # c)
                => grid'[c[2]][c[1]] = grid[c[2]][c[1]]
    ]_vars

\* The handler saw an out-of-range event pair on a grid that is not blank.
C5_Witness ==
    /\ op = "print_mouse_events_system"
    /\ \E ev \in Range(arg.events) : OutOfRange(ev)
    /\ grid # GridNew

Reset == op = "print_char_event_system" /\ "r" \in Range(arg.chars)

\* C6 as stated: right after a reset the grid equals the grid of startup.
C6_ResetRestoresStartup == Reset => grid = SetupGrid

\* C6 amended: right after a reset every cell is the zero cell of Grid::new().
C6_ResetIsGridNew ==
    Reset => \A c \in Cells :
                /\ Velocities(grid)[c] = Vec2ZERO
                /\ Densities(grid)[c] = 0

\* A reset that followed another handler.
C6_Witness == Reset /\ ops >= 2

FrameOver == frame.n >= 1 /\ frame.pending = {}

C8_AdvectionKeepsVelocity ==
    [][op' = "advection_system" => Velocities(grid') = Velocities(grid)]_vars

\* An advection step with dt > 0 completed on a grid with a moving cell that
\* holds density.
C8_Witness ==
    /\ op = "advection_system"
    /\ arg.dt > 0
    /\ ~panicked
    /\ \E c \in Cells : Velocities(grid)[c] # Vec2ZERO /\ Densities(grid)[c] # 0

InStep == run.pc \in Steps

\* C9 as stated: no loop body reads a cell of the working copy that was
\* assigned earlier in the same step.
C9_NoPartialReads == InStep => run.reads \cap run.seen = {}

\* C9 amended: while a step is in progress the grid keeps its value; it is
\* replaced by the working copy once, after the last sweep.
C9_GridReplacedAfterLastSweep ==
    [][InStep =>
        \/ grid' = grid
        \/ /\ run.i = Sweeps(run.pc)
           /\ run'.pc = "idle"
           /\ grid' = run.new_grid
    ]_vars

\* In the last sweep the working copy differs from the grid, and the last
\* body read cells assigned earlier in the step.
C9_Witness ==
    /\ InStep
    /\ run.i = Sweeps(run.pc) - 1
    /\ run.new_grid # grid
    /\ run.reads \cap run.seen # {}

\* floor(f) in whole cells.
Floor(f) == f \div SCALE

\* C10: a negative backtraced coordinate is floored and wrapped into the
\* grid, and its fractional offset lies in [0, 1).
C10_NegativeBacktraceWraps ==
    (run.pc = "advection_system" /\ run.reads # {}) =>
        LET b == run.local
        IN  /\ b.f.x < 0 => (b.ix = Floor(b.f.x) % WIDTH /\ b.jx \in 0 .. (SCALE - 1))
            /\ b.f.y < 0 => (b.iy = Floor(b.f.y) % HEIGHT /\ b.jy \in 0 .. (SCALE - 1))

====
